---- MODULE Spec2Model ----
(***************************************************************************)
(* Model of the authentication service: the users table (Credential        *)
(* Store), UsersService (create / find / update / updateLastLogin /        *)
(* remove) and AuthService (validateUser, validateOAuthUser, register,     *)
(* login).  Every request is a process that walks through the awaits of    *)
(* its handler; each await that touches the users table is one step, so    *)
(* that concurrent requests interleave exactly where the code yields.      *)
(***************************************************************************)
EXTENDS Integers, FiniteSets, Sequences, TLC

VARIABLES users, nextId, clock, procs

vars == <<users, nextId, clock, procs>>

----
(* Bounds of the model *)

\* ids the users table hands out (ids are never reused)
MaxUsers == 2
\* requests and administrative actions in one behaviour; clock counts them:
\* each arrives one tick after the previous one, and new Date() reads the clock
MaxRequests == 3

Procs == {"r1", "r2"}
Emails == {"a@x.com", "b@x.com"}
Passwords == {"password123", "longenough1"}
\* what a registration supplies besides its email: password, name, picture
Credentials == {<<"password123", "A", "null">>, <<"longenough1", "B", "pic.png">>}
\* what the provider asserts besides the email: name, picture, providerId
Identities == {<<"A", "null", "X">>, <<"B", "pic.png", "Y">>}
\* what a profile update may set
NewEmails == Emails
NewNames == {"B"}
Salts == {"s1"}
\* registration payloads the validation rejects: email, password, name, picture
InvalidRegistrations ==
    {<<"invalid-email", "password123", "A", "null">>, <<"a@x.com", "1234567", "A", "null">>}

----
(* Data model *)

Null == "null"
NullTime == 0

\* enum AuthProvider (the facebook and twitter values have no login flow)
AuthProviderLOCAL == "local"
AuthProviderGOOGLE == "google"
OAuthProviders == {AuthProviderGOOGLE}

saltRounds == 12

NoPassword == [alg |-> "none", rounds |-> 0, salt |-> Null, plain |-> Null]

\* bcrypt.hash(password, saltRounds): a salted one-way digest of the password
hashPassword(password, salt) ==
    [alg |-> "bcrypt", rounds |-> saltRounds, salt |-> salt, plain |-> password]

\* bcrypt.compare(plain, hashed): re-hash with the salt and cost kept in the hash
validatePassword(plainPassword, hashedPassword) ==
    /\ hashedPassword.alg = "bcrypt"
    /\ hashedPassword =
         [alg |-> "bcrypt", rounds |-> hashedPassword.rounds,
          salt |-> hashedPassword.salt, plain |-> plainPassword]

\* a row of the users table as the entity declares it
User(id, email, password, name, profilePicture, authProvider, providerId) ==
    [id |-> id, email |-> email, password |-> password, name |-> name,
     profilePicture |-> profilePicture, authProvider |-> authProvider,
     providerId |-> providerId, isActive |-> TRUE,
     emailVerificationToken |-> Null, resetPasswordToken |-> Null,
     resetPasswordExpires |-> Null, lastLogin |-> NullTime]

\* the nullable columns create never assigns: save returns the object it was
\* given, completed with the generated and defaulted columns only
UnassignedColumns ==
    {"emailVerificationToken", "resetPasswordToken", "resetPasswordExpires", "lastLogin"}

\* the entity object userRepository.save(user) hands back to create's caller
SavedEntity(user) == [f \in (DOMAIN user) \ UnassignedColumns |-> user[f]]

\* mutant: the password is left on the object
WithoutPasswordKept(user) == user

\* const { password, ...rest } = user
WithoutPassword(user) == [f \in (DOMAIN user) \ {"password"} |-> user[f]]

\* mutant: the token's subject is not the user's id
signWithoutSubject(user) == [sub |-> 0, email |-> user.email]

\* jwtService.sign({ email: user.email, sub: user.id })
sign(user) == [sub |-> user.id, email |-> user.email]

----
(* User repository queries *)

findByEmail(email) == {u \in users : u.email = email}

findByProviderData(provider, providerId) ==
    {u \in users : u.authProvider = provider /\ u.providerId = providerId}

RowById(id) == {u \in users : u.id = id}

\* columns named in findById's select list
SelectedColumns == {"id", "email", "name", "profilePicture", "authProvider", "isActive"}

findById(id) == {[f \in SelectedColumns |-> u[f]] : u \in RowById(id)}

\* mutant: a users table without the unique constraint on email
EmailTakenNever(email, id) == FALSE

\* the unique constraint on users.email, seen by an insert or update of row id
EmailTaken(email, id) == \E u \in users : u.email = email /\ u.id # id

----
(* Requests *)

NoArgs == [email |-> Null, password |-> Null, name |-> Null, profilePicture |-> Null,
           provider |-> Null, providerId |-> Null, id |-> 0,
           field |-> Null, value |-> Null, bearer |-> Null]

Idle == [op |-> "none", pc |-> "idle", args |-> NoArgs, found |-> {},
         validated |-> {}, kind |-> "none", user |-> {}, token |-> {}]

Request(op, args) == [Idle EXCEPT !.op = op, !.args = args]

Free(p) == procs[p].pc \in {"idle", "done"}

\* a request arrives in a free slot and runs up to its first await on the
\* users table, which leaves it in state next
Arrive(p, next) ==
    /\ Free(p)
    /\ clock < MaxRequests
    /\ clock' = clock + 1
    /\ procs' = [procs EXCEPT ![p] = next]
    /\ UNCHANGED <<users, nextId>>

\* the request ends with a failure of the given kind
Failed(r, kind) == [r EXCEPT !.pc = "done", !.kind = kind]

\* the request ends with { user, access_token }
Responded(r, user, token) ==
    [r EXCEPT !.pc = "done", !.kind = "ok", !.user = {user}, !.token = {token}]

Init ==
    /\ users = {}
    /\ nextId = 1
    /\ clock = 0
    /\ procs = [p \in Procs |-> Idle]

----
(* UsersService.create, shared by register and validateOAuthUser *)

\* the CreateUserDto a request hands to create
RegisterDto(a) ==
    [email |-> a.email, password |-> a.password, name |-> a.name,
     profilePicture |-> a.profilePicture, authProvider |-> Null, providerId |-> Null]

OAuthDto(a) ==
    [email |-> a.email, password |-> Null, name |-> a.name,
     profilePicture |-> a.profilePicture, authProvider |-> a.provider,
     providerId |-> a.providerId]

CreateDto(r) == IF r.op = "register" THEN RegisterDto(r.args) ELSE OAuthDto(r.args)

\* mutant: create stores the password as supplied
NewUserPlainPassword(id, dto, salt) ==
    User(id, dto.email,
         IF dto.password # Null
           THEN [alg |-> "plain", rounds |-> 0, salt |-> Null, plain |-> dto.password]
           ELSE NoPassword,
         dto.name, dto.profilePicture,
         IF dto.authProvider # Null THEN dto.authProvider ELSE AuthProviderLOCAL,
         dto.providerId)

\* mutant: create ignores the dto's authProvider
NewUserAlwaysLocal(id, dto, salt) ==
    User(id, dto.email,
         IF dto.password # Null THEN hashPassword(dto.password, salt) ELSE NoPassword,
         dto.name, dto.profilePicture, AuthProviderLOCAL, dto.providerId)

\* mutant: create hashes whatever the dto carries as password
NewUserAlwaysHashes(id, dto, salt) ==
    User(id, dto.email, hashPassword(dto.password, salt),
         dto.name, dto.profilePicture,
         IF dto.authProvider # Null THEN dto.authProvider ELSE AuthProviderLOCAL,
         dto.providerId)

\* the entity create builds from the dto before saving it
NewUser(id, dto, salt) ==
    User(id, dto.email,
         IF dto.password # Null THEN hashPassword(dto.password, salt) ELSE NoPassword,
         dto.name, dto.profilePicture,
         IF dto.authProvider # Null THEN dto.authProvider ELSE AuthProviderLOCAL,
         dto.providerId)

\* mutant: create without its existence check
CreateFindStepUnchecked(r) == [r EXCEPT !.pc = "create_save"]

\* create: const existingUser = await this.findByEmail(...); Conflict if found
CreateFindStep(r) ==
    IF findByEmail(CreateDto(r).email) # {}
      THEN Failed(r, "conflict")
      ELSE [r EXCEPT !.pc = "create_save"]

\* what the caller of create gets when the store rejects the insert: create
\* catches nothing, the driver's QueryFailedError propagates
InsertRejected(r) == Failed(r, "queryFailed")

\* what the caller of create does with the saved entity, up to its next await:
\* register signs the token and responds, validateOAuthUser returns the user
Created(r, user) ==
    IF r.op = "register"
      THEN Responded(r, WithoutPassword(SavedEntity(user)), sign(user))
      ELSE [r EXCEPT !.pc = "login_update", !.validated = {SavedEntity(user)}]

CreateFind(p) ==
    /\ procs[p].pc = "create_find"
    /\ procs' = [procs EXCEPT ![p] = CreateFindStep(procs[p])]
    /\ UNCHANGED <<users, nextId, clock>>

\* create: return this.userRepository.save(user)
CreateSave(p) ==
    /\ procs[p].pc = "create_save"
    /\ nextId <= MaxUsers
    /\ \E salt \in Salts :
         LET user == NewUser(nextId, CreateDto(procs[p]), salt) IN
         IF EmailTaken(user.email, user.id)
           THEN /\ procs' = [procs EXCEPT ![p] = InsertRejected(procs[p])]
                /\ UNCHANGED <<users, nextId>>
           ELSE /\ users' = users \cup {user}
                /\ nextId' = nextId + 1
                /\ procs' = [procs EXCEPT ![p] = Created(procs[p], user)]
    /\ UNCHANGED clock

----
(* AuthService.register *)

MinPasswordLength == 8

\* the text of an email input, split at its "@" signs
AddressParts(email) ==
    CASE email = "a@x.com" -> <<"a", "x.com">>
      [] email = "b@x.com" -> <<"b", "x.com">>
      [] email = "invalid-email" -> <<"invalid-email">>

\* @IsEmail(): a local part and a domain around one "@"
IsEmail(email) ==
    /\ Len(AddressParts(email)) = 2
    /\ \A i \in 1..2 : AddressParts(email)[i] # ""

\* the decorators of the registration payload: @IsEmail() email,
\* @MinLength(8) password
ValidRegisterDto(a) == IsEmail(a.email) /\ Len(a.password) >= MinPasswordLength

\* mutant: no ValidationPipe in front of the handler
ValidationPipeStepOff(r) == CreateFindStep(r)

\* ValidationPipe on @Body(): an invalid payload is answered 400 and the
\* handler does not run; a valid one reaches authService.register
ValidationPipeStep(r) ==
    IF ValidRegisterDto(r.args) THEN CreateFindStep(r) ELSE Failed(r, "badRequest")

RegisterPayloads ==
    {<<email, c[1], c[2], c[3]>> : email \in Emails, c \in Credentials}
      \cup InvalidRegistrations

StartRegister(p) ==
    \E d \in RegisterPayloads :
      Arrive(p, ValidationPipeStep(Request("register",
               [NoArgs EXCEPT !.email = d[1], !.password = d[2],
                              !.name = d[3], !.profilePicture = d[4]])))

----
(* AuthService.login *)

\* userRepository.update(id, { lastLogin: new Date() }): no row, no effect
updateLastLogin(rows, id, now) ==
    {IF u.id = id THEN [u EXCEPT !.lastLogin = now] ELSE u : u \in rows}

\* login(user): refresh lastLogin, sign, strip the password
LoginUpdate(p) ==
    /\ procs[p].pc = "login_update"
    /\ \E user \in procs[p].validated :
         /\ users' = updateLastLogin(users, user.id, clock)
         /\ procs' = [procs EXCEPT ![p] =
                        Responded(procs[p], WithoutPassword(user), sign(user))]
    /\ UNCHANGED <<nextId, clock>>

----
(* AuthService.validateUser, called by the local strategy before login *)

\* mutant: the isActive test inverted
validateUserInvertedActive(found, password) ==
    IF found = {} \/ (\E u \in found : u.password = NoPassword)
      THEN [kind |-> "null", user |-> {}]
    ELSE IF \E u \in found : ~validatePassword(password, u.password)
      THEN [kind |-> "null", user |-> {}]
    ELSE IF \E u \in found : u.isActive
      THEN [kind |-> "deactivated", user |-> {}]
    ELSE [kind |-> "ok", user |-> {WithoutPassword(u) : u \in found}]

\* mutant: an unknown email reported apart from a wrong password
validateUserUnknownDistinct(found, password) ==
    IF found = {}
      THEN [kind |-> "notFound", user |-> {}]
    ELSE IF \E u \in found : u.password = NoPassword
      THEN [kind |-> "null", user |-> {}]
    ELSE IF \E u \in found : ~validatePassword(password, u.password)
      THEN [kind |-> "null", user |-> {}]
    ELSE IF \E u \in found : ~u.isActive
      THEN [kind |-> "deactivated", user |-> {}]
    ELSE [kind |-> "ok", user |-> {WithoutPassword(u) : u \in found}]

\* mutant: isActive tested before the password
validateUserActiveFirst(found, password) ==
    IF found = {} \/ (\E u \in found : u.password = NoPassword)
      THEN [kind |-> "null", user |-> {}]
    ELSE IF \E u \in found : ~u.isActive
      THEN [kind |-> "deactivated", user |-> {}]
    ELSE IF \E u \in found : ~validatePassword(password, u.password)
      THEN [kind |-> "null", user |-> {}]
    ELSE [kind |-> "ok", user |-> {WithoutPassword(u) : u \in found}]

\* the decision of validateUser on the row findByEmail returned
validateUser(found, password) ==
    IF found = {} \/ (\E u \in found : u.password = NoPassword)
      THEN [kind |-> "null", user |-> {}]
    ELSE IF \E u \in found : ~validatePassword(password, u.password)
      THEN [kind |-> "null", user |-> {}]
    ELSE IF \E u \in found : ~u.isActive
      THEN [kind |-> "deactivated", user |-> {}]
    ELSE [kind |-> "ok", user |-> {WithoutPassword(u) : u \in found}]

\* the local strategy turns a null from validateUser into invalid credentials
LocalStrategyFailure(kind) == IF kind = "null" THEN "invalidCredentials" ELSE kind

ValidateStep(r) ==
    LET v == validateUser(findByEmail(r.args.email), r.args.password) IN
    IF v.kind = "ok"
      THEN [r EXCEPT !.pc = "login_update", !.validated = v.user]
      ELSE Failed(r, LocalStrategyFailure(v.kind))

\* mutant: a successful validation stamps lastLogin itself
StartLoginStampsLastLogin(p) ==
    \E email \in Emails, password \in Passwords :
      LET next == ValidateStep(Request("login",
                    [NoArgs EXCEPT !.email = email, !.password = password])) IN
      /\ Free(p)
      /\ clock < MaxRequests
      /\ clock' = clock + 1
      /\ procs' = [procs EXCEPT ![p] = next]
      /\ users' = {IF \E v \in next.validated : v.id = u.id
                     THEN [u EXCEPT !.lastLogin = clock] ELSE u : u \in users}
      /\ UNCHANGED nextId

StartLogin(p) ==
    \E email \in Emails, password \in Passwords :
      Arrive(p, ValidateStep(Request("login",
               [NoArgs EXCEPT !.email = email, !.password = password])))

----
(* AuthService.validateOAuthUser, called by the OAuth strategy before login *)

\* mutant: the pair lookup refuses a deactivated user
OAuthFindProviderStepsActiveOnly(r) ==
    LET found == findByProviderData(r.args.provider, r.args.providerId) IN
    IF found # {}
      THEN {IF user.isActive
              THEN [r EXCEPT !.pc = "oauth_updateLastLogin", !.found = {user}]
              ELSE Failed(r, "deactivated") : user \in found}
      ELSE {[r EXCEPT !.pc = "oauth_findEmail"]}

\* mutant: the email lookup decided before the pair lookup
OAuthFindProviderStepsEmailFirst(r) ==
    LET found == findByProviderData(r.args.provider, r.args.providerId) IN
    IF findByEmail(r.args.email) # {} /\ findByEmail(r.args.email) \cap found = {}
      THEN {Failed(r, "conflict")}
    ELSE IF found # {}
      THEN {[r EXCEPT !.pc = "oauth_updateLastLogin", !.found = {user}] : user \in found}
      ELSE {[r EXCEPT !.pc = "oauth_findEmail"]}

\* let user = await findByProviderData(provider, providerId): findOne returns
\* any one of the matching rows
OAuthFindProviderSteps(r) ==
    LET found == findByProviderData(r.args.provider, r.args.providerId) IN
    IF found # {}
      THEN {[r EXCEPT !.pc = "oauth_updateLastLogin", !.found = {user}] : user \in found}
      ELSE {[r EXCEPT !.pc = "oauth_findEmail"]}

StartOAuth(p) ==
    \E email \in Emails, i \in Identities, provider \in OAuthProviders :
      \E next \in OAuthFindProviderSteps(Request("oauth",
               [NoArgs EXCEPT !.email = email, !.name = i[1],
                              !.profilePicture = i[2], !.provider = provider,
                              !.providerId = i[3]])) :
        Arrive(p, next)

\* if (user) { await updateLastLogin(user.id); return user; }
OAuthUpdateLastLogin(p) ==
    /\ procs[p].pc = "oauth_updateLastLogin"
    /\ \E user \in procs[p].found :
         /\ users' = updateLastLogin(users, user.id, clock)
         /\ procs' = [procs EXCEPT ![p].pc = "login_update", ![p].validated = {user}]
    /\ UNCHANGED <<nextId, clock>>

\* mutant: an email collision links the identity to the existing account
OAuthFindEmailStepLinks(r) ==
    IF findByEmail(r.args.email) # {}
      THEN [r EXCEPT !.pc = "login_update", !.validated = findByEmail(r.args.email)]
      ELSE [r EXCEPT !.pc = "create_find"]

\* user = await findByEmail(email); Conflict if found, else create
OAuthFindEmailStep(r) ==
    IF findByEmail(r.args.email) # {}
      THEN Failed(r, "conflict")
      ELSE [r EXCEPT !.pc = "create_find"]

\* mutant: an email collision links the identity to the stored account
OAuthFindEmailLinksAccount(p) ==
    /\ procs[p].pc = "oauth_findEmail"
    /\ LET a == procs[p].args
           owner == findByEmail(a.email) IN
       IF owner # {}
         THEN /\ users' = {IF u \in owner
                             THEN [u EXCEPT !.authProvider = a.provider,
                                            !.providerId = a.providerId]
                             ELSE u : u \in users}
              /\ procs' = [procs EXCEPT ![p].pc = "login_update",
                                        ![p].validated = owner]
         ELSE /\ procs' = [procs EXCEPT ![p].pc = "create_find"]
              /\ UNCHANGED users
    /\ UNCHANGED <<nextId, clock>>

OAuthFindEmail(p) ==
    /\ procs[p].pc = "oauth_findEmail"
    /\ procs' = [procs EXCEPT ![p] = OAuthFindEmailStep(procs[p])]
    /\ UNCHANGED <<users, nextId, clock>>

----
(* UsersService.update *)

UpdateFields == {"email", "name"}

UpdateValues(field) == IF field = "email" THEN NewEmails ELSE NewNames

\* the ids a request can address: those handed out so far, and one that was
\* never handed out
AddressableIds == 1..(IF nextId < MaxUsers THEN nextId ELSE MaxUsers)

\* mutant: findById without its NotFoundException
FindByIdStepUnchecked(r, pc) == [r EXCEPT !.pc = pc, !.found = findById(r.args.id)]

\* const user = await this.findById(id): NotFound, or the selected columns
FindByIdStep(r, pc) ==
    LET found == findById(r.args.id) IN
    IF found = {} THEN Failed(r, "notFound")
                  ELSE [r EXCEPT !.pc = pc, !.found = found]

StartUpdate(p) ==
    \E id \in AddressableIds, field \in UpdateFields :
      \E value \in UpdateValues(field) :
        Arrive(p, FindByIdStep(Request("update",
                 [NoArgs EXCEPT !.id = id, !.field = field, !.value = value]),
                 "update_save"))

\* Object.assign(user, updateUserDto)
Assign(user, field, value) == [user EXCEPT ![field] = value]

\* userRepository.save(entity) of an entity that carries its id: the columns
\* present on the entity are written to the stored row; when no row has the
\* id, the entity is inserted
SaveEntity(rows, entity) ==
    IF \E u \in rows : u.id = entity.id
      THEN {IF u.id = entity.id
              THEN [f \in DOMAIN u |-> IF f \in DOMAIN entity THEN entity[f] ELSE u[f]]
              ELSE u : u \in rows}
      ELSE rows \cup {[User(entity.id, entity.email, NoPassword, entity.name,
                            entity.profilePicture, entity.authProvider, Null)
                         EXCEPT !.isActive = entity.isActive]}

UpdateSave(p) ==
    /\ procs[p].pc = "update_save"
    /\ \E user \in procs[p].found :
         LET entity == Assign(user, procs[p].args.field, procs[p].args.value) IN
         IF EmailTaken(entity.email, entity.id)
           THEN /\ procs' = [procs EXCEPT ![p] = Failed(procs[p], "queryFailed")]
                /\ UNCHANGED users
           ELSE /\ users' = SaveEntity(users, entity)
                /\ procs' = [procs EXCEPT ![p].pc = "done", ![p].kind = "ok",
                                          ![p].user = {entity}]
    /\ UNCHANGED <<nextId, clock>>

----
(* UsersService.remove *)

StartRemove(p) ==
    \E id \in AddressableIds :
      Arrive(p, FindByIdStep(Request("remove", [NoArgs EXCEPT !.id = id]), "remove_do"))

\* await this.userRepository.remove(user): deletes the row with the entity's id
RemoveDo(p) ==
    /\ procs[p].pc = "remove_do"
    /\ \E user \in procs[p].found :
         /\ users' = {u \in users : u.id # user.id}
         /\ procs' = [procs EXCEPT ![p].pc = "done", ![p].kind = "ok"]
    /\ UNCHANGED <<nextId, clock>>

----
(* Protected routes: JwtAuthGuard, AuthController.getProfile and logout *)

\* the tokens clients hold: those of the responses on display
IssuedTokens == UNION {procs[q].token : q \in Procs}

\* what a request to a protected route carries as bearer credential: nothing,
\* or a token with the state of its signature and of its expiry
Bearers ==
    {[token |-> {}, signature |-> Null, expired |-> FALSE]}
      \cup {[token |-> {t}, signature |-> "valid", expired |-> e] :
               t \in IssuedTokens, e \in BOOLEAN}
      \cup {[token |-> {t}, signature |-> "invalid", expired |-> FALSE] :
               t \in IssuedTokens}

\* JwtAuthGuard: a token is present, its signature verifies under the secret
\* and it has not expired
JwtAuthGuard(bearer) ==
    bearer.token # {} /\ bearer.signature = "valid" /\ ~bearer.expired

\* req.user.id: the subject of the verified token
Subject(bearer) == IF bearer.token = {} THEN 0 ELSE (CHOOSE t \in bearer.token : TRUE).sub

ProtectedRequest(op, bearer) ==
    Request(op, [NoArgs EXCEPT !.bearer = bearer, !.id = Subject(bearer)])

\* getProfile(userId): return this.usersService.findById(userId)
GetProfileStep(r) ==
    LET found == FindByIdStep(r, "done") IN
    IF found.kind = "notFound" THEN found
                               ELSE [found EXCEPT !.kind = "ok", !.user = found.found]

\* mutant: the profile route without @UseGuards(JwtAuthGuard)
StartGetProfileUnguarded(p) ==
    \E bearer \in Bearers :
      Arrive(p, GetProfileStep(ProtectedRequest("getProfile", bearer)))

StartGetProfile(p) ==
    \E bearer \in Bearers :
      LET r == ProtectedRequest("getProfile", bearer) IN
      Arrive(p, IF JwtAuthGuard(bearer) THEN GetProfileStep(r)
                                       ELSE Failed(r, "unauthorized"))

\* logout: return { message: 'Logout successful' }
LogoutStep(r) == [r EXCEPT !.pc = "done", !.kind = "ok"]

\* mutant: logout ends the session by deactivating the account
StartLogoutDeactivates(p) ==
    \E bearer \in Bearers :
      /\ JwtAuthGuard(bearer)
      /\ Free(p)
      /\ clock < MaxRequests
      /\ clock' = clock + 1
      /\ procs' = [procs EXCEPT ![p] = LogoutStep(ProtectedRequest("logout", bearer))]
      /\ users' = {IF u.id = Subject(bearer) THEN [u EXCEPT !.isActive = FALSE] ELSE u :
                     u \in users}
      /\ UNCHANGED nextId

StartLogout(p) ==
    \E bearer \in Bearers :
      LET r == ProtectedRequest("logout", bearer) IN
      Arrive(p, IF JwtAuthGuard(bearer) THEN LogoutStep(r)
                                       ELSE Failed(r, "unauthorized"))

----
(* Administration *)

\* an administrator deactivates an account (isActive = false)
Deactivate ==
    /\ clock < MaxRequests
    /\ clock' = clock + 1
    /\ \E u \in users :
         /\ u.isActive
         /\ users' = (users \ {u}) \cup {[u EXCEPT !.isActive = FALSE]}
    /\ UNCHANGED <<nextId, procs>>

----

Next ==
    \/ \E p \in Procs : StartRegister(p)
    \/ \E p \in Procs : StartLogin(p)
    \/ \E p \in Procs : StartOAuth(p)
    \/ \E p \in Procs : StartUpdate(p)
    \/ \E p \in Procs : StartRemove(p)
    \/ \E p \in Procs : CreateFind(p)
    \/ \E p \in Procs : CreateSave(p)
    \/ \E p \in Procs : LoginUpdate(p)
    \/ \E p \in Procs : OAuthUpdateLastLogin(p)
    \/ \E p \in Procs : OAuthFindEmail(p)
    \/ \E p \in Procs : UpdateSave(p)
    \/ \E p \in Procs : RemoveDo(p)
    \/ Deactivate

Spec == Init /\ [][Next]_vars

\* the core together with the protected routes of AuthController
NextApi ==
    \/ Next
    \/ \E p \in Procs : StartGetProfile(p)
    \/ \E p \in Procs : StartLogout(p)

SpecApi == Init /\ [][NextApi]_vars

\* the life of local accounts: registration, local login, the protected
\* routes, update, removal and deactivation, without the OAuth flow
NextAccount ==
    \/ \E p \in Procs : StartRegister(p)
    \/ \E p \in Procs : StartLogin(p)
    \/ \E p \in Procs : StartGetProfile(p)
    \/ \E p \in Procs : StartLogout(p)
    \/ \E p \in Procs : StartUpdate(p)
    \/ \E p \in Procs : StartRemove(p)
    \/ \E p \in Procs : CreateSave(p)
    \/ \E p \in Procs : LoginUpdate(p)
    \/ \E p \in Procs : UpdateSave(p)
    \/ \E p \in Procs : RemoveDo(p)
    \/ Deactivate

SpecAccount == Init /\ [][NextAccount]_vars

----
(* Vocabulary of the properties *)

\* hash is a bcrypt hash of password
IsHashOf(hash, password) == \E salt \in Salts : hash = hashPassword(password, salt)

StoredIds == {u.id : u \in users}

\* in this step a request arrives in slot p
Arrives(p) == Free(p) /\ clock' = clock + 1 /\ procs'[p] # procs[p]

\* in this step the request in slot p, which was at pc, moves on
Leaves(p, op, pc) == procs[p].op = op /\ procs[p].pc = pc /\ procs'[p] # procs[p]

\* the response carries no user and no token
EmptyResponse(r) == r.user = {} /\ r.token = {} /\ r.validated = {}

----
(* C1: no two stored users have the same email, in every reachable state,    *)
(* under every interleaving of register, OAuth resolution, update, remove    *)

C1_EmailUnique == \A u, v \in users : u.email = v.email => u = v

\* two users are stored and the store has rejected a write that would have
\* given a second row an email already taken
C1_Witness ==
    /\ Cardinality(users) = 2
    /\ \E p \in Procs : procs[p].pc = "done" /\ procs[p].kind = "queryFailed"

----
(* C2: the request that loses the race between the email check and the       *)
(* insert ends with the same conflict failure as a sequential duplicate:     *)
(* a register or OAuth request that fails, fails with conflict               *)

----
(* C3, as claimed: once a registration of an email has succeeded, every      *)
(* later registration of the same email fails with conflict, so no two       *)
(* registrations of one email both succeed                                   *)

C3_NeverRegisteredTwice ==
    \A p, q \in Procs :
      (p # q /\ procs[p].op = "register" /\ procs[q].op = "register"
         /\ procs[p].kind = "ok" /\ procs[q].kind = "ok")
        => procs[p].args.email # procs[q].args.email

(* C3, amended: a registration that finds its email stored when it checks    *)
(* fails with conflict, issues no token and leaves the users table as it     *)
(* is, whatever its password and name; a registration that finds no user     *)
(* with its email when it checks and when it inserts succeeds and stores it  *)
(* (registrations whose payload passed the validation in front of the core)  *)

C3_Step(p) ==
    /\ (Arrives(p) /\ procs'[p].op = "register" /\ procs'[p].kind # "badRequest")
         => IF \E u \in users : u.email = procs'[p].args.email
              THEN /\ procs'[p].pc = "done"
                   /\ procs'[p].kind = "conflict"
                   /\ EmptyResponse(procs'[p])
                   /\ users' = users
              ELSE procs'[p].pc = "create_save"
    /\ (Leaves(p, "register", "create_save")
          /\ ~\E u \in users : u.email = procs[p].args.email)
         => /\ procs'[p].kind = "ok"
            /\ \E u \in users' : u.email = procs[p].args.email

C3_ConflictWhileStored == [][\A p \in Procs : C3_Step(p)]_vars

\* a registration ended with conflict against a stored user whose password
\* is not the one this registration supplied
C3_Witness ==
    \E p \in Procs :
      /\ procs[p].op = "register" /\ procs[p].kind = "conflict"
      /\ \E u \in users :
           /\ u.email = procs[p].args.email
           /\ u.password # NoPassword
           /\ ~IsHashOf(u.password, procs[p].args.password)

----
(* C4: a successful registration adds exactly one user, with the payload's   *)
(* email, name and picture, authProvider local, no providerId, isActive      *)
(* true and a hash of the supplied password, and returns that user without   *)
(* the password and a token whose subject is the new id and whose email      *)
(* claim is the registered email                                             *)

C4_Step(p) ==
    (Leaves(p, "register", "create_save") /\ procs'[p].kind = "ok")
      => \E u \in users' :
           /\ u.id \notin StoredIds
           /\ users' = users \cup {u}
           /\ Cardinality(users') = Cardinality(users) + 1
           /\ u.email = procs[p].args.email
           /\ u.name = procs[p].args.name
           /\ u.profilePicture = procs[p].args.profilePicture
           /\ u.authProvider = "local"
           /\ u.providerId = Null
           /\ u.isActive
           /\ IsHashOf(u.password, procs[p].args.password)
           /\ \A other \in Passwords \ {procs[p].args.password} :
                ~IsHashOf(u.password, other)
           /\ procs'[p].pc = "done"
           /\ procs'[p].token = {[sub |-> u.id, email |-> procs[p].args.email]}
           /\ \E view \in procs'[p].user :
                /\ procs'[p].user = {view}
                /\ "password" \notin DOMAIN view
                /\ {"id", "email", "name", "profilePicture", "authProvider",
                    "providerId", "isActive"} \subseteq DOMAIN view
                /\ \A f \in DOMAIN view : view[f] = u[f]

C4_RegisterCreatesLocalUser == [][\A p \in Procs : C4_Step(p)]_vars

\* a registration has succeeded and its user is stored
C4_Witness ==
    \E p \in Procs :
      /\ procs[p].op = "register" /\ procs[p].kind = "ok"
      /\ \E u \in users, t \in procs[p].token : u.id = t.sub /\ u.authProvider = "local"

----
(* C5: local login of an active user that has a password hash, with the      *)
(* user's exact email and the correct password, passes validation and login  *)
(* returns a token whose subject is the user's id and whose email claim is   *)
(* the user's email                                                          *)

C5_Step(p) ==
    /\ (Arrives(p) /\ procs'[p].op = "login")
         => \A u \in users :
              (/\ u.email = procs'[p].args.email
               /\ IsHashOf(u.password, procs'[p].args.password)
               /\ u.isActive)
                => /\ procs'[p].pc = "login_update"
                   /\ procs'[p].validated = {[f \in (DOMAIN u) \ {"password"} |-> u[f]]}
    /\ Leaves(p, "login", "login_update")
         => /\ procs'[p].pc = "done"
            /\ procs'[p].kind = "ok"
            /\ \E v \in procs[p].validated :
                 /\ v.email = procs[p].args.email
                 /\ procs'[p].token = {[sub |-> v.id, email |-> v.email]}

C5_LoginIssuesTokenForUser == [][\A p \in Procs : C5_Step(p)]_vars

\* a local login has succeeded with a token for a stored, active user that
\* has a hash of the password presented
C5_Witness ==
    \E p \in Procs :
      /\ procs[p].op = "login" /\ procs[p].kind = "ok"
      /\ \E u \in users, t \in procs[p].token :
           /\ u.id = t.sub /\ u.email = t.email /\ u.isActive
           /\ IsHashOf(u.password, procs[p].args.password)

----
(* C6: validation has one and the same failure outcome, invalid credentials  *)
(* with no user and no token, when the email matches no user, when it        *)
(* matches a user without a password hash, and when the password does not    *)
(* verify; the outcome is the same record in the three cases                 *)

C6_Step(p) ==
    (Arrives(p) /\ procs'[p].op = "login")
      => LET matches == {u \in users : u.email = procs'[p].args.email} IN
         (\/ matches = {}
          \/ \E u \in matches : u.password = NoPassword
          \/ \E u \in matches : ~IsHashOf(u.password, procs'[p].args.password))
           => /\ procs'[p].pc = "done"
              /\ procs'[p].kind = "invalidCredentials"
              /\ EmptyResponse(procs'[p])
              /\ procs'[p].found = {}
              /\ users' = users

C6_UnifiedInvalidCredentials == [][\A p \in Procs : C6_Step(p)]_vars

\* one login failed for an email nobody has, another for a stored user whose
\* password is not the one presented, and both show invalid credentials
C6_Witness ==
    \E p, q \in Procs :
      /\ p # q
      /\ procs[p].op = "login" /\ procs[p].kind = "invalidCredentials"
      /\ procs[q].op = "login" /\ procs[q].kind = "invalidCredentials"
      /\ ~\E u \in users : u.email = procs[p].args.email
      /\ \E u \in users :
           /\ u.email = procs[q].args.email
           /\ u.password # NoPassword
           /\ ~IsHashOf(u.password, procs[q].args.password)

\* a login failed with invalid credentials against an account without hash
C6_WitnessOAuthOnly ==
    \E p \in Procs :
      /\ procs[p].op = "login" /\ procs[p].kind = "invalidCredentials"
      /\ \E u \in users : u.email = procs[p].args.email /\ u.password = NoPassword

----
(* C7: validation fails with account deactivated exactly when the email      *)
(* resolves to a user with a password hash, the password verifies and        *)
(* isActive is false; a deactivated user with a wrong password gets invalid  *)
(* credentials, and one with the correct password gets neither invalid       *)
(* credentials nor a user record                                             *)

C7_Step(p) ==
    /\ (Arrives(p) /\ procs'[p].op = "login")
         => LET valid == {u \in users :
                            /\ u.email = procs'[p].args.email
                            /\ IsHashOf(u.password, procs'[p].args.password)}
                wrong == {u \in users :
                            /\ u.email = procs'[p].args.email
                            /\ ~IsHashOf(u.password, procs'[p].args.password)} IN
            /\ (procs'[p].kind = "deactivated") <=> (\E u \in valid : ~u.isActive)
            /\ (\E u \in valid : ~u.isActive)
                 => /\ procs'[p].pc = "done"
                    /\ procs'[p].kind # "invalidCredentials"
                    /\ EmptyResponse(procs'[p])
            /\ (\E u \in wrong : ~u.isActive)
                 => procs'[p].kind = "invalidCredentials"
    /\ Leaves(p, "login", "login_update") => procs'[p].kind # "deactivated"

C7_DeactivatedIffValidAndInactive == [][\A p \in Procs : C7_Step(p)]_vars

\* a login with the correct password of a deactivated user was refused as
\* deactivated
C7_Witness ==
    \E p \in Procs :
      /\ procs[p].op = "login" /\ procs[p].kind = "deactivated"
      /\ \E u \in users :
           /\ u.email = procs[p].args.email /\ ~u.isActive
           /\ IsHashOf(u.password, procs[p].args.password)

----
(* C8: an OAuth resolution whose pair and whose email match no stored user   *)
(* adds exactly one user with authProvider = provider, the supplied          *)
(* providerId, email, name and picture, no password hash and isActive true,  *)
(* and returns that user                                                     *)

PairStored(a) ==
    \E u \in users : u.authProvider = a.provider /\ u.providerId = a.providerId

C8_Step(p) ==
    LET a == procs[p].args
        emailStored == \E u \in users : u.email = a.email IN
    /\ (Arrives(p) /\ procs'[p].op = "oauth" /\ ~PairStored(procs'[p].args))
         => procs'[p].pc = "oauth_findEmail"
    /\ (Leaves(p, "oauth", "oauth_findEmail") /\ ~emailStored)
         => procs'[p].pc = "create_find" /\ users' = users
    /\ (Leaves(p, "oauth", "create_find") /\ ~emailStored)
         => procs'[p].pc = "create_save" /\ users' = users
    /\ (Leaves(p, "oauth", "create_save") /\ ~emailStored)
         => \E u \in users' :
              /\ u.id \notin StoredIds
              /\ users' = users \cup {u}
              /\ Cardinality(users') = Cardinality(users) + 1
              /\ u.authProvider = a.provider
              /\ u.providerId = a.providerId
              /\ u.email = a.email
              /\ u.name = a.name
              /\ u.profilePicture = a.profilePicture
              /\ u.password = NoPassword
              /\ u.isActive
              /\ \E v \in procs'[p].validated :
                   /\ procs'[p].validated = {v}
                   /\ {"id", "email", "name", "profilePicture", "authProvider",
                       "providerId", "isActive"} \subseteq DOMAIN v
                   /\ \A f \in DOMAIN v : v[f] = u[f]
              /\ procs'[p].pc = "login_update"

C8_OAuthCreatesUser == [][\A p \in Procs : C8_Step(p)]_vars

\* a first OAuth resolution has just stored its user and returned it
C8_Witness ==
    \E p \in Procs :
      /\ procs[p].op = "oauth" /\ procs[p].pc = "login_update" /\ procs[p].found = {}
      /\ \E u \in users, v \in procs[p].validated :
           /\ v.id = u.id
           /\ \A f \in DOMAIN v : v[f] = u[f]
           /\ u.providerId = procs[p].args.providerId
           /\ u.password = NoPassword

----
(* C9: every resolution of one OAuth identity returns the same user id, as   *)
(* long as the users returned are still stored (no removal in between)       *)

C9_SameIdentitySameUser ==
    \A p, q \in Procs :
      (/\ procs[p].op = "oauth" /\ procs[q].op = "oauth"
       /\ procs[p].args.provider = procs[q].args.provider
       /\ procs[p].args.providerId = procs[q].args.providerId)
        => \A v \in procs[p].validated, w \in procs[q].validated :
             (v.id \in StoredIds /\ w.id \in StoredIds) => v.id = w.id

----
(* C10: an OAuth resolution whose pair matches no stored user and whose      *)
(* email is the email of a stored user fails with conflict, creates no row   *)
(* and changes no field of any stored user                                   *)

C10_Step(p) ==
    (/\ \/ Leaves(p, "oauth", "oauth_findEmail")
        \/ Leaves(p, "oauth", "create_find")
     /\ \E u \in users : u.email = procs[p].args.email)
      => /\ procs'[p].pc = "done"
         /\ procs'[p].kind = "conflict"
         /\ EmptyResponse(procs'[p])
         /\ users' = users

----
(* C11: in an OAuth resolution the pair lookup is decided before the email   *)
(* lookup: when the (provider, providerId) pair matches a stored user, the   *)
(* resolution returns a stored user with that pair and never conflict,       *)
(* whatever email is supplied; the email lookup is reached only when the     *)
(* pair lookup missed                                                        *)

C11_Step(p) ==
    /\ (Arrives(p) /\ procs'[p].op = "oauth" /\ PairStored(procs'[p].args))
         => /\ procs'[p].pc = "oauth_updateLastLogin"
            /\ \E u \in users :
                 /\ u.authProvider = procs'[p].args.provider
                 /\ u.providerId = procs'[p].args.providerId
                 /\ procs'[p].found = {u}
    /\ (Arrives(p) /\ procs'[p].op = "oauth"
          /\ procs'[p].pc \in {"oauth_findEmail", "done"})
         => ~PairStored(procs'[p].args)
    /\ Leaves(p, "oauth", "oauth_updateLastLogin")
         => /\ procs'[p].pc = "login_update"
            /\ procs'[p].kind # "conflict"
            /\ procs'[p].validated = procs[p].found
    /\ (Leaves(p, "oauth", "login_update") /\ procs[p].found # {})
         => /\ procs'[p].pc = "done"
            /\ procs'[p].kind = "ok"
            /\ \E u \in procs[p].found :
                 /\ procs'[p].user = {[f \in (DOMAIN u) \ {"password"} |-> u[f]]}
                 /\ procs'[p].token = {[sub |-> u.id, email |-> u.email]}

C11_PairLookupFirst == [][\A p \in Procs : C11_Step(p)]_vars

\* an OAuth resolution was answered with the user its pair matched, although
\* the email it supplied is the email of a different stored user
C11_Witness ==
    \E p \in Procs :
      /\ procs[p].op = "oauth" /\ procs[p].kind = "ok"
      /\ \E u \in procs[p].found, t \in procs[p].token, v \in users :
           /\ t.sub = u.id
           /\ u.authProvider = procs[p].args.provider
           /\ u.providerId = procs[p].args.providerId
           /\ u.email # procs[p].args.email
           /\ v.email = procs[p].args.email
           /\ v.id # u.id

----
(* C12: no user object in a response has a password field: not the one       *)
(* returned by register, by login of a locally validated or OAuth-resolved   *)
(* user, by profile retrieval, or by any other operation, in any reachable   *)
(* state                                                                     *)

C12_NoPasswordInOutput ==
    \A p \in Procs : \A view \in procs[p].user : "password" \notin DOMAIN view

\* a profile retrieval and a login have both returned the view of a stored
\* user that has a password hash
C12_Witness ==
    \E p, q \in Procs : \E u \in users :
      /\ u.password # NoPassword
      /\ procs[p].op = "getProfile" /\ procs[p].kind = "ok"
      /\ procs[q].op = "login" /\ procs[q].kind = "ok"
      /\ \E view \in procs[p].user : view.id = u.id
      /\ \E view \in procs[q].user : view.id = u.id

----
(* C13: the user view returned by registration and by login contains neither *)
(* the password hash nor any of the fields emailVerificationToken,           *)
(* resetPasswordToken, resetPasswordExpires                                  *)

TokenFields == {"emailVerificationToken", "resetPasswordToken", "resetPasswordExpires"}

C13_ViewHasNoSecretField ==
    \A p \in Procs :
      (procs[p].op \in {"register", "login", "oauth"} /\ procs[p].kind = "ok")
        => \A view \in procs[p].user :
             (DOMAIN view) \cap ({"password"} \cup TokenFields) = {}

----
(* C14: profile retrieval, profile update and removal addressed to an id     *)
(* that no stored user has fail with not found, return nothing and leave the *)
(* store unchanged; profile retrieval addressed to a stored id returns the   *)
(* record of the user with that id                                           *)

\* the bearer credential passes the guard of the protected routes
Verified(bearer) ==
    bearer.token # {} /\ bearer.signature = "valid" /\ bearer.expired = FALSE

C14_Step(p) ==
    LET r == procs'[p] IN
    /\ (/\ Arrives(p)
         /\ \/ r.op \in {"update", "remove"}
            \/ r.op = "getProfile" /\ Verified(r.args.bearer)
         /\ r.args.id \notin StoredIds)
         => /\ r.pc = "done"
            /\ r.kind = "notFound"
            /\ EmptyResponse(r)
            /\ users' = users
            /\ nextId' = nextId
    /\ (/\ Arrives(p)
         /\ r.op = "getProfile" /\ Verified(r.args.bearer)
         /\ r.args.id \in StoredIds)
         => /\ r.pc = "done"
            /\ r.kind = "ok"
            /\ users' = users
            /\ \E u \in users, view \in r.user :
                 /\ r.user = {view}
                 /\ u.id = r.args.id
                 /\ {"id", "email", "name", "profilePicture", "authProvider",
                     "isActive"} \subseteq DOMAIN view
                 /\ \A f \in DOMAIN view : view[f] = u[f]

C14_NotFoundForUnresolvedId == [][\A p \in Procs : C14_Step(p)]_vars

\* a profile retrieval with the token of a user that was removed after the
\* token was issued has failed with not found
C14_Witness ==
    \E p, q \in Procs :
      /\ procs[p].op = "getProfile" /\ procs[p].kind = "notFound"
      /\ Verified(procs[p].args.bearer)
      /\ procs[p].args.id \notin StoredIds
      /\ procs[q].op = "remove" /\ procs[q].kind = "ok"
      /\ procs[q].args.id = procs[p].args.id

----
(* C15: logout keeps no session state: a logout changes no stored user, no   *)
(* id counter and no other request, and answers with no user and no token;   *)
(* a profile retrieval that presents a verified token after a logout with    *)
(* that token has completed is never unauthorized, and succeeds exactly when *)
(* the token's user is stored, as before the logout                          *)

C15_Step(p) ==
    LET r == procs'[p] IN
    /\ (Arrives(p) /\ r.op = "logout")
         => /\ users' = users
            /\ nextId' = nextId
            /\ \A q \in Procs \ {p} : procs'[q] = procs[q]
            /\ r.pc = "done"
            /\ EmptyResponse(r)
            /\ Verified(r.args.bearer) => r.kind = "ok"
    /\ (/\ Arrives(p)
         /\ r.op = "getProfile" /\ Verified(r.args.bearer)
         /\ \E q \in Procs :
              /\ procs[q].op = "logout" /\ procs[q].kind = "ok"
              /\ procs[q].args.bearer.token = r.args.bearer.token)
         => /\ r.kind # "unauthorized"
            /\ r.kind = "ok" <=> r.args.id \in StoredIds
            /\ r.kind = "ok" => \E view \in r.user : view.id = r.args.id

C15_LogoutKeepsNoState == [][\A p \in Procs : C15_Step(p)]_vars

\* a logout and a profile retrieval have both been answered for the same
\* token, the retrieval with the user's record
C15_Witness ==
    \E p, q \in Procs :
      /\ procs[q].op = "logout" /\ procs[q].kind = "ok"
      /\ procs[p].op = "getProfile" /\ procs[p].kind = "ok"
      /\ procs[p].args.bearer.token = procs[q].args.bearer.token
      /\ \E u \in users, view \in procs[p].user : u.id = view.id /\ u.isActive

----
(* C16: every successful login refreshes lastLogin: when a local login, a    *)
(* returning OAuth sign-in or a first OAuth sign-in is answered with a       *)
(* token, the stored user the token names has lastLogin equal to the time of *)
(* that login, and not null                                                  *)

C16_Step(p) ==
    (/\ \/ Leaves(p, "login", "login_update")
        \/ Leaves(p, "oauth", "login_update")
     /\ procs'[p].kind = "ok")
      => \E t \in procs'[p].token :
           \E u \in users' :
             /\ u.id = t.sub
             /\ u.lastLogin = clock
             /\ u.lastLogin # NullTime

C16_LoginRefreshesLastLogin == [][\A p \in Procs : C16_Step(p)]_vars

----
(* C17: a registration whose password is shorter than 8 characters or whose  *)
(* email is not an email address is answered with a validation failure       *)
(* before the core runs: no user and no token in the response, no stored     *)
(* user added or changed, no id consumed                                     *)

C17_Step(p) ==
    LET r == procs'[p] IN
    (/\ Arrives(p) /\ r.op = "register"
     /\ Len(r.args.password) < 8 \/ r.args.email = "invalid-email")
      => /\ r.pc = "done"
         /\ r.kind = "badRequest"
         /\ EmptyResponse(r)
         /\ r.found = {}
         /\ users' = users
         /\ nextId' = nextId

C17_InvalidRegistrationRejected == [][\A p \in Procs : C17_Step(p)]_vars

\* one registration was rejected for its 7-character password and another
\* for its email, and nothing is stored
C17_Witness ==
    \E p, q \in Procs :
      /\ procs[p].op = "register" /\ procs[p].kind = "badRequest"
      /\ Len(procs[p].args.password) = 7
      /\ procs[q].op = "register" /\ procs[q].kind = "badRequest"
      /\ procs[q].args.email = "invalid-email"
      /\ users = {}

----
(* C18: a request to profile retrieval or logout that carries no token, a    *)
(* token with an invalid signature or an expired token is answered           *)
(* unauthorized: the handler does not run, getProfile looks up no user,      *)
(* nothing is returned and the store is unchanged                            *)

C18_Step(p) ==
    LET r == procs'[p] IN
    (/\ Arrives(p) /\ r.op \in {"getProfile", "logout"}
     /\ \/ r.args.bearer.token = {}
        \/ r.args.bearer.signature # "valid"
        \/ r.args.bearer.expired)
      => /\ r.pc = "done"
         /\ r.kind = "unauthorized"
         /\ r.found = {}
         /\ EmptyResponse(r)
         /\ users' = users
         /\ nextId' = nextId

C18_ProtectedRoutesNeedValidToken == [][\A p \in Procs : C18_Step(p)]_vars

\* a profile retrieval that presented a stored user's token with an invalid
\* signature and one that presented it expired were both refused
C18_Witness ==
    \E p, q \in Procs : \E u \in users :
      /\ procs[p].op = "getProfile" /\ procs[p].kind = "unauthorized"
      /\ procs[p].args.id = u.id
      /\ procs[p].args.bearer.signature = "invalid"
      /\ procs[q].op = "getProfile" /\ procs[q].kind = "unauthorized"
      /\ procs[q].args.id = u.id
      /\ procs[q].args.bearer.signature = "valid" /\ procs[q].args.bearer.expired

----
(* C19: end to end: while the user a registration (e, p, n) created is       *)
(* stored as registered (not deactivated, updated or removed), a login with  *)
(* (e, p) passes validation and is answered with a token for that user, and  *)
(* a profile retrieval with the registration's or the login's token returns  *)
(* a record with email e and name n and no password                          *)

\* u is stored as the registration with arguments a created it
AsRegistered(u, a) ==
    /\ u.authProvider = AuthProviderLOCAL
    /\ u.email = a.email
    /\ u.name = a.name
    /\ IsHashOf(u.password, a.password)
    /\ u.isActive

C19_Step(p) ==
    LET r == procs'[p] IN
    /\ (Arrives(p) /\ r.op = "login")
         => \A u \in users :
              (/\ u.authProvider = AuthProviderLOCAL /\ u.isActive
               /\ u.email = r.args.email
               /\ IsHashOf(u.password, r.args.password))
                => /\ r.pc = "login_update"
                   /\ \E v \in r.validated : r.validated = {v} /\ v.id = u.id
    /\ Leaves(p, "login", "login_update")
         => \A u \in users :
              (/\ u.authProvider = AuthProviderLOCAL /\ u.isActive
               /\ \E v \in procs[p].validated : v.id = u.id
               /\ u.email = procs[p].args.email
               /\ IsHashOf(u.password, procs[p].args.password))
                => /\ r.pc = "done" /\ r.kind = "ok"
                   /\ r.token = {[sub |-> u.id, email |-> u.email]}
                   /\ \E view \in r.user :
                        /\ r.user = {view}
                        /\ view.id = u.id
                        /\ "password" \notin DOMAIN view
    /\ (Arrives(p) /\ r.op = "getProfile" /\ Verified(r.args.bearer))
         => \A q \in Procs, u \in users :
              (/\ procs[q].op \in {"register", "login"} /\ procs[q].kind = "ok"
               /\ procs[q].token = r.args.bearer.token
               /\ u.id = r.args.id
               /\ u.email = procs[q].args.email
               /\ IsHashOf(u.password, procs[q].args.password)
               /\ procs[q].op = "register" => AsRegistered(u, procs[q].args))
                => /\ r.pc = "done" /\ r.kind = "ok"
                   /\ \E view \in r.user :
                        /\ r.user = {view}
                        /\ "password" \notin DOMAIN view
                        /\ view.id = u.id
                        /\ view.email = procs[q].args.email
                        /\ view.name = u.name
                        /\ procs[q].op = "register" => view.name = procs[q].args.name

C19_RegisterLoginProfile == [][\A p \in Procs : C19_Step(p)]_vars

\* a registered user has logged in with the registered credentials and its
\* profile was retrieved with the token
C19_Witness ==
    \E p, q \in Procs : \E u \in users :
      /\ u.authProvider = AuthProviderLOCAL /\ u.isActive
      /\ u.lastLogin # NullTime
      /\ procs[q].op = "login" /\ procs[q].kind = "ok"
      /\ IsHashOf(u.password, procs[q].args.password)
      /\ procs[q].token = {[sub |-> u.id, email |-> u.email]}
      /\ procs[p].op = "getProfile" /\ procs[p].kind = "ok"
      /\ procs[p].args.bearer.token = procs[q].token
      /\ \E view \in procs[p].user :
           view.id = u.id /\ view.email = u.email /\ view.name = u.name

----
(* C20: a stored user has a password hash only if local registration created *)
(* it with that hash: every user with a hash either had the same hash before *)
(* the step or is the local user a registration inserts in the step; a user  *)
(* created by OAuth resolution has none and no step gives it one             *)

C20_Step ==
    /\ \A v \in users' :
         v.password # NoPassword
           => /\ v.authProvider = AuthProviderLOCAL
              /\ v.providerId = Null
              /\ \/ \E u \in users : u.id = v.id /\ u.password = v.password
                 \/ /\ v.id \notin StoredIds
                    /\ \E p \in Procs :
                         /\ Leaves(p, "register", "create_save")
                         /\ IsHashOf(v.password, procs[p].args.password)
    /\ \A v \in users' :
         (v.id \notin StoredIds /\ \E p \in Procs : Leaves(p, "oauth", "create_save"))
           => v.password = NoPassword

C20_PasswordOnlyFromRegistration == [][C20_Step]_vars

\* a user created by OAuth resolution has signed in and has no password hash,
\* next to a registered user that has one
C20_Witness ==
    \E u, v \in users :
      /\ u.authProvider \in OAuthProviders
      /\ u.password = NoPassword
      /\ u.lastLogin # NullTime
      /\ v.authProvider = AuthProviderLOCAL
      /\ v.password # NoPassword

----
(* C21: no two stored users have the same (authProvider, providerId) pair    *)
(* when both fields are present                                              *)

C21_ProviderPairUnique ==
    \A u, v \in users :
      (/\ u.authProvider \in OAuthProviders /\ u.providerId # Null
       /\ u.authProvider = v.authProvider /\ u.providerId = v.providerId)
        => u = v

----
(* C22: no account linking: no step of a registration, a local login or an   *)
(* OAuth resolution, nor any other step, changes the authProvider or the     *)
(* providerId of a user that is stored before and after it                   *)

C22_Step ==
    \A u \in users, v \in users' :
      u.id = v.id => u.authProvider = v.authProvider /\ u.providerId = v.providerId

----
(* C23: validateUser is read-only: the step in which a local login is        *)
(* validated leaves the users table and the id counter as they are, whatever *)
(* its outcome; the lastLogin of a stored user changes only in login's       *)
(* update or in the pair hit of an OAuth resolution                          *)

C23_Step ==
    /\ \A p \in Procs :
         (Arrives(p) /\ procs'[p].op = "login")
           => /\ users' = users
              /\ nextId' = nextId
              /\ procs'[p].kind \in {"none", "invalidCredentials", "deactivated"}
              /\ procs'[p].kind = "none" <=> procs'[p].pc = "login_update"
    /\ (\E u \in users, v \in users' : u.id = v.id /\ u.lastLogin # v.lastLogin)
         => \E p \in Procs :
              \/ Leaves(p, "login", "login_update")
              \/ Leaves(p, "oauth", "login_update")
              \/ Leaves(p, "oauth", "oauth_updateLastLogin")

C23_ValidateUserReadOnly == [][C23_Step]_vars

\* a login with a wrong password and a login with an unknown email have both
\* failed, and the lastLogin of the stored account is still null
C23_Witness ==
    \E p, q \in Procs : \E u \in users :
      /\ procs[p].op = "login" /\ procs[p].kind = "invalidCredentials"
      /\ u.email = procs[p].args.email
      /\ u.password # NoPassword
      /\ ~IsHashOf(u.password, procs[p].args.password)
      /\ u.lastLogin = NullTime
      /\ procs[q].op = "login" /\ procs[q].kind = "invalidCredentials"
      /\ \A v \in users : v.email # procs[q].args.email

----
(* C24: isActive is not consulted by OAuth resolution: a resolution whose    *)
(* pair matches a stored user with isActive false returns that user without  *)
(* failure, and the login that follows answers with a token for it           *)

C24_Step(p) ==
    /\ (Arrives(p) /\ procs'[p].op = "oauth"
          /\ \E u \in users :
               /\ u.authProvider = procs'[p].args.provider
               /\ u.providerId = procs'[p].args.providerId
               /\ ~u.isActive)
         => /\ procs'[p].pc = "oauth_updateLastLogin"
            /\ procs'[p].kind = "none"
    /\ (Leaves(p, "oauth", "oauth_updateLastLogin")
          /\ \E u \in procs[p].found : ~u.isActive)
         => /\ procs'[p].pc = "login_update"
            /\ procs'[p].kind = "none"
            /\ procs'[p].validated = procs[p].found
    /\ (Leaves(p, "oauth", "login_update")
          /\ \E u \in procs[p].validated : ~u.isActive)
         => /\ procs'[p].pc = "done"
            /\ procs'[p].kind = "ok"
            /\ \E u \in procs[p].validated :
                 procs'[p].token = {[sub |-> u.id, email |-> u.email]}

C24_OAuthIgnoresIsActive == [][\A p \in Procs : C24_Step(p)]_vars

\* an OAuth sign-in was answered with a token for a stored user that was
\* deactivated before the resolution looked it up
C24_Witness ==
    \E p \in Procs : \E u \in users :
      /\ procs[p].op = "oauth" /\ procs[p].kind = "ok"
      /\ ~u.isActive
      /\ \E f \in procs[p].found : f.id = u.id /\ ~f.isActive
      /\ procs[p].token = {[sub |-> u.id, email |-> u.email]}

----
(* C25: a token is issued only for a user that is stored when it is signed:  *)
(* whenever login answers with a token, a user with the token's subject is   *)
(* in the users table                                                        *)

C25_Step(p) ==
    (Leaves(p, procs[p].op, "login_update") /\ procs'[p].token # {})
      => \A t \in procs'[p].token : t.sub \in StoredIds

C25_TokenOnlyForStoredUser == [][\A p \in Procs : C25_Step(p)]_vars

====
